---- MODULE Spec2Model ----
(***************************************************************************)
(* Model of plane-mcp-server (src/src/index.ts): the CallTool request      *)
(* handler and callPlaneAPI.                                               *)
(*                                                                         *)
(* JavaScript values are tagged records [t, v].  A string is a sequence of *)
(* atomic tokens: a token is either a run of URI-unreserved characters     *)
(* ("high", "u1"), a single reserved character (" "), or the unpaired      *)
(* surrogate "\\uD800".  An object is the sequence of its own enumerable   *)
(* properties [k, v] in enumeration order.  Texts built by the program     *)
(* (endpoints, messages, JSON text) are token sequences as well.           *)
(***************************************************************************)
EXTENDS Integers, Sequences, FiniteSets

VARIABLES PLANE_API_URL, running, unknownSeen, pc, call, sent, response, result,
          tools, listed

vars == <<PLANE_API_URL, running, unknownSeen, pc, call, sent, response, result,
          tools, listed>>

\* ---------------------------------------------------------------- bounds
NumSlots == 2

Slots == 1..NumSlots

\* ------------------------------------------------------------ JS values
Str(s) == [t |-> "str", v |-> s]

Num(n) == [t |-> "num", v |-> n]

Bool(b) == [t |-> "bool", v |-> b]

Arr(s) == [t |-> "arr", v |-> s]

Obj(ps) == [t |-> "obj", v |-> ps]

Null == [t |-> "null", v |-> <<>>]

Undef == [t |-> "undef", v |-> <<>>]

Prop(k, x) == [k |-> k, v |-> x]

\* typeof x
TypeOf(x) ==
  CASE x.t = "str" -> "string"
    [] x.t = "num" -> "number"
    [] x.t = "bool" -> "boolean"
    [] x.t = "undef" -> "undefined"
    [] OTHER -> "object"

\* Array.isArray(x)
IsArray(x) == x.t = "arr"

\* ToBoolean(x), as used by `if (x)`, `!x` and `a && b`
Truthy(x) ==
  CASE x.t = "str" -> x.v # <<>>
    [] x.t = "num" -> x.v # 0
    [] x.t = "bool" -> x.v
    [] x.t = "undef" -> FALSE
    [] x.t = "null" -> FALSE
    [] OTHER -> TRUE

\* o.key for an object o: the property's value, undefined when absent
Get(o, key) ==
  IF o.t = "obj" /\ \E i \in 1..Len(o.v) : o.v[i].k = key
  THEN o.v[CHOOSE i \in 1..Len(o.v) : o.v[i].k = key].v
  ELSE Undef

HasKey(o, key) == o.t = "obj" /\ \E i \in 1..Len(o.v) : o.v[i].k = key

\* const { k1, k2, ...rest } = o : the properties of o not named in keys
Rest(o, keys) == Obj(SelectSeq(o.v, LAMBDA p : p.k \notin keys))

\* delete o.key
Delete(o, key) == Obj(SelectSeq(o.v, LAMBDA p : p.k # key))

\* o.key = x for a key o already has (the property keeps its position)
Assign(o, key, x) ==
  Obj([i \in 1..Len(o.v) |-> IF o.v[i].k = key THEN Prop(key, x) ELSE o.v[i]])

\* Object.values(o)
ObjectValues(o) == Arr([i \in 1..Len(o.v) |-> o.v[i].v])

RECURSIVE Join(_, _)
Join(ss, sep) ==
  IF ss = <<>> THEN <<>>
  ELSE IF Len(ss) = 1 THEN Head(ss)
  ELSE Head(ss) \o sep \o Join(Tail(ss), sep)

Digit(d) ==
  CASE d = 0 -> "0" [] d = 1 -> "1" [] d = 2 -> "2" [] d = 3 -> "3"
    [] d = 4 -> "4" [] d = 5 -> "5" [] d = 6 -> "6" [] d = 7 -> "7"
    [] d = 8 -> "8" [] d = 9 -> "9"

\* decimal text of a natural number
RECURSIVE Digits(_)
Digits(n) == IF n < 10 THEN <<Digit(n)>> ELSE Digits(n \div 10) \o <<Digit(n % 10)>>

\* String(x)
RECURSIVE StringOf(_)
StringOf(x) ==
  CASE x.t = "str" -> x.v
    [] x.t = "num" -> Digits(x.v)
    [] x.t = "bool" -> <<IF x.v THEN "true" ELSE "false">>
    [] x.t = "null" -> <<"null">>
    [] x.t = "undef" -> <<"undefined">>
    [] x.t = "arr" ->
         Join([i \in 1..Len(x.v) |->
                 IF x.v[i].t \in {"null", "undef"} THEN <<>> ELSE StringOf(x.v[i])],
              <<",">>)
    [] OTHER -> <<"[object Object]">>

Surrogate == "\\uD800"

\* encodeURIComponent of one token
EncodeToken(c) ==
  CASE c = " " -> "%20"
    [] c = "&" -> "%26"
    [] c = "," -> "%2C"
    [] c = "[object Object]" -> "%5Bobject%20Object%5D"
    [] OTHER -> c

\* encodeURIComponent(s): throws URIError on an unpaired surrogate
EncodeURIComponent(s) ==
  IF \E i \in 1..Len(s) : s[i] = Surrogate
  THEN [ok |-> FALSE, v |-> <<"URI malformed">>]
  ELSE [ok |-> TRUE, v |-> [i \in 1..Len(s) |-> EncodeToken(s[i])]]

\* The JSON document JSON.stringify(x) encodes: properties whose value is
\* undefined are omitted, undefined array elements become null.
RECURSIVE JSONDocument(_)
JSONDocument(x) ==
  CASE x.t = "arr" ->
         Arr([i \in 1..Len(x.v) |->
                IF x.v[i].t = "undef" THEN Null ELSE JSONDocument(x.v[i])])
    [] x.t = "obj" ->
         LET kept == SelectSeq(x.v, LAMBDA p : p.v.t # "undef")
         IN Obj([i \in 1..Len(kept) |-> Prop(kept[i].k, JSONDocument(kept[i].v))])
    [] OTHER -> x

Indent(n) == [i \in 1..n |-> "  "]

\* JSON.stringify(x, null, 2) of a JSON value, d the nesting depth
RECURSIVE Stringify(_, _)
Stringify(x, d) ==
  CASE x.t = "str" -> <<"\"">> \o x.v \o <<"\"">>
    [] x.t = "num" -> Digits(x.v)
    [] x.t = "bool" -> <<IF x.v THEN "true" ELSE "false">>
    [] x.t = "arr" ->
         IF x.v = <<>> THEN <<"[]">>
         ELSE <<"[", "\n">>
              \o Join([i \in 1..Len(x.v) |-> Indent(d + 1) \o Stringify(x.v[i], d + 1)],
                      <<",", "\n">>)
              \o <<"\n">> \o Indent(d) \o <<"]">>
    [] x.t = "obj" ->
         IF x.v = <<>> THEN <<"{}">>
         ELSE <<"{", "\n">>
              \o Join([i \in 1..Len(x.v) |->
                         Indent(d + 1) \o <<"\"", x.v[i].k, "\"", ": ">>
                         \o Stringify(x.v[i].v, d + 1)],
                      <<",", "\n">>)
              \o <<"\n">> \o Indent(d) \o <<"}">>
    [] OTHER -> <<"null">>

\* ------------------------------------------------------- configuration
PLANE_API_KEY == "plane_api_key"

PLANE_WORKSPACE_SLUG == "my-workspace"

DefaultApiUrl == "https://api.plane.so/api/v1/workspaces"

\* --------------------------------------------------------- tool names
ListProjects == <<"list", "-", "projects">>

GetProject == <<"get", "-", "project">>

CreateIssue == <<"create", "-", "issue">>

ListIssues == <<"list", "-", "issues">>

GetIssue == <<"get", "-", "issue">>

UpdateIssue == <<"update", "-", "issue">>

\* the names of the tools the ListTools handler answers with
ToolNames == <<ListProjects, GetProject, CreateIssue, ListIssues, GetIssue, UpdateIssue>>

Registered == {ToolNames[i] : i \in 1..Len(ToolNames)}

\* variant of NormalizeName: name.replace("_", "-"), the first underscore only
NormalizeNameFirstOnly(name) ==
  [i \in 1..Len(name) |->
     IF name[i] = "_" /\ \A j \in 1..(i - 1) : name[j] # "_" THEN "-" ELSE name[i]]

\* name.replace(/_/g, "-")
NormalizeName(name) == [i \in 1..Len(name) |-> IF name[i] = "_" THEN "-" ELSE name[i]]

\* ------------------------------------------- steps of the tool handler
\* What a run of handler code ends in: a call of callPlaneAPI (the handler
\* is suspended there), a returned result, or a thrown Error.
CallAPI(endpoint, method, body) ==
  [k |-> "fetch", endpoint |-> endpoint, method |-> method, body |-> body,
   text |-> <<>>, isError |-> FALSE]

Throw(msg) ==
  [k |-> "throw", endpoint |-> <<>>, method |-> "", body |-> Undef,
   text |-> msg, isError |-> TRUE]

Return(text, isError) ==
  [k |-> "return", endpoint |-> <<>>, method |-> "", body |-> Undef,
   text |-> text, isError |-> isError]

\* create-issue: the assignees normalisation of issueData
CreateIssueAssignees(issueData) ==
  LET a == Get(issueData, "assignees")
  IN IF Truthy(a)
     THEN IF /\ TypeOf(a) = "object"
             /\ ~IsArray(a)
             /\ Truthy(Get(a, "project_id"))
             /\ Truthy(Get(a, "name"))
          THEN Delete(issueData, "assignees")
          ELSE IF ~IsArray(a)
               THEN IF TypeOf(a) = "string"
                    THEN Assign(issueData, "assignees", Arr(<<a>>))
                    ELSE IF TypeOf(a) = "object"
                         THEN Assign(issueData, "assignees", ObjectValues(a))
                         ELSE Delete(issueData, "assignees")
               ELSE issueData
     ELSE issueData

\* update-issue: the assignees normalisation of updateData
UpdateIssueAssignees(updateData) ==
  LET a == Get(updateData, "assignees")
  IN IF Truthy(a)
     THEN IF /\ TypeOf(a) = "object"
             /\ ~IsArray(a)
             /\ Truthy(Get(a, "project_id"))
             /\ Truthy(Get(a, "name"))
          THEN Delete(updateData, "assignees")
          ELSE IF ~IsArray(a)
               THEN IF TypeOf(a) = "string"
                    THEN Assign(updateData, "assignees", Arr(<<a>>))
                    ELSE IF TypeOf(a) = "object"
                         THEN Assign(updateData, "assignees", ObjectValues(a))
                         ELSE Delete(updateData, "assignees")
               ELSE updateData
     ELSE updateData

\* variant of QueryPairs without the filter on undefined values
QueryPairsUnfiltered(queryParams) ==
  [i \in 1..Len(queryParams.v) |->
     LET enc == EncodeURIComponent(StringOf(queryParams.v[i].v))
     IN [ok |-> enc.ok,
         v |-> IF enc.ok THEN <<queryParams.v[i].k, "=">> \o enc.v ELSE enc.v]]

\* list-issues: Object.entries(queryParams).filter(...).map(...), one entry
\* [ok, v] per defined value; ok is FALSE where encodeURIComponent throws
QueryPairs(queryParams) ==
  LET defined == SelectSeq(queryParams.v, LAMBDA p : p.v.t # "undef")
  IN [i \in 1..Len(defined) |->
        LET enc == EncodeURIComponent(StringOf(defined[i].v))
        IN [ok |-> enc.ok,
            v |-> IF enc.ok THEN <<defined[i].k, "=">> \o enc.v ELSE enc.v]]

\* args.<field> is not a string (args is known to be truthy)
NotString(args, field) == TypeOf(Get(args, field)) # "string"

ListProjectsCase(args) == CallAPI(<<"/projects/">>, "GET", Undef)

\* variant of GetProjectCase whose endpoint lacks the trailing slash
GetProjectCaseWithoutSlash(args) ==
  IF ~Truthy(args) \/ NotString(args, "project_id")
  THEN Throw(<<"Project ID is required">>)
  ELSE CallAPI(<<"/projects/">> \o Get(args, "project_id").v, "GET", Undef)

GetProjectCase(args) ==
  IF ~Truthy(args) \/ NotString(args, "project_id")
  THEN Throw(<<"Project ID is required">>)
  ELSE CallAPI(<<"/projects/">> \o Get(args, "project_id").v \o <<"/">>, "GET", Undef)

CreateIssueCase(args) ==
  IF ~Truthy(args) \/ NotString(args, "project_id")
  THEN Throw(<<"Project ID is required">>)
  ELSE CallAPI(<<"/projects/">> \o Get(args, "project_id").v \o <<"/issues/">>,
               "POST",
               CreateIssueAssignees(Rest(args, {"project_id"})))

ListIssuesCase(args) ==
  IF ~Truthy(args) \/ NotString(args, "project_id")
  THEN Throw(<<"Project ID is required">>)
  ELSE LET pairs == QueryPairs(Rest(args, {"project_id"}))
           bad == {i \in 1..Len(pairs) : ~pairs[i].ok}
           queryString == Join([i \in 1..Len(pairs) |-> pairs[i].v], <<"&">>)
       IN IF bad # {}
          THEN Throw(pairs[CHOOSE i \in bad : \A j \in bad : i <= j].v)
          ELSE CallAPI(<<"/projects/">> \o Get(args, "project_id").v \o <<"/issues/">>
                         \o (IF queryString # <<>> THEN <<"?">> \o queryString ELSE <<>>),
                       "GET", Undef)

GetIssueCase(args) ==
  IF ~Truthy(args) \/ NotString(args, "project_id") \/ NotString(args, "issue_id")
  THEN Throw(<<"Project ID and Issue ID are required">>)
  ELSE CallAPI(<<"/projects/">> \o Get(args, "project_id").v \o <<"/issues/">>
                 \o Get(args, "issue_id").v \o <<"/">>,
               "GET", Undef)

UpdateIssueCase(args) ==
  IF ~Truthy(args) \/ NotString(args, "project_id") \/ NotString(args, "issue_id")
  THEN Throw(<<"Project ID and Issue ID are required">>)
  ELSE CallAPI(<<"/projects/">> \o Get(args, "project_id").v \o <<"/issues/">>
                 \o Get(args, "issue_id").v \o <<"/">>,
               "PATCH",
               UpdateIssueAssignees(Rest(args, {"project_id", "issue_id"})))

\* variant of DefaultCase whose text does not name the tool
DefaultCaseWithoutName(name) == Return(<<"Unknown tool">>, TRUE)

DefaultCase(name) == Return(<<"Unknown tool: ">> \o name, TRUE)

\* The handler from its entry to its first suspension or its end:
\* let { name, arguments: args = {} } = request.params; ...; switch (name)
HandlerStart(params) ==
  LET args == IF params.arguments.t = "undef" THEN Obj(<<>>) ELSE params.arguments
      name == NormalizeName(params.name)
  IN CASE name = ListProjects -> ListProjectsCase(args)
       [] name = GetProject -> GetProjectCase(args)
       [] name = CreateIssue -> CreateIssueCase(args)
       [] name = ListIssues -> ListIssuesCase(args)
       [] name = GetIssue -> GetIssueCase(args)
       [] name = UpdateIssue -> UpdateIssueCase(args)
       [] OTHER -> DefaultCase(name)

\* callPlaneAPI up to `await fetch(url, options)`: the request it sends
FetchRequest(endpoint, method, body) ==
  [method |-> method,
   url |-> <<PLANE_API_URL, "/", PLANE_WORKSPACE_SLUG>> \o endpoint,
   headers |-> [contentType |-> "application/json", apiKey |-> PLANE_API_KEY],
   body |-> IF Truthy(body) /\ method \in {"POST", "PATCH"}
            THEN JSONDocument(body) ELSE Undef]

\* response.ok
ResponseOk(resp) == resp.status >= 200 /\ resp.status <= 299

\* the value callPlaneAPI returns
Value(x) ==
  [k |-> "value", endpoint |-> <<>>, method |-> "", body |-> x,
   text |-> <<>>, isError |-> FALSE]

\* variant of ApiErrorMessage that leaves the response body out
ApiErrorMessageWithoutBody(resp) ==
  <<"Plane API error: ">> \o Digits(resp.status) \o <<" ">> \o resp.statusText

\* callPlaneAPI, `if (!response.ok) {...}`: the message of the Error thrown
\* for a non-2xx response
ApiErrorMessage(resp) ==
  LET errorText == IF resp.textOk THEN resp.text
                   ELSE <<"Unable to parse error response">>
  IN <<"Plane API error: ">> \o Digits(resp.status) \o <<" ">> \o resp.statusText
       \o <<"\n">> \o errorText

\* variant of SuccessValue without the test for status 204
SuccessValueAlwaysDecoded(resp) ==
  IF resp.jsonOk THEN Value(resp.json) ELSE Throw(resp.error)

\* callPlaneAPI for a 2xx response: {success: true} for 204, else the
\* decoded body, or the SyntaxError of response.json()
SuccessValue(resp) ==
  IF resp.status = 204
  THEN Value(Obj(<<Prop("success", Bool(TRUE))>>))
  ELSE IF resp.jsonOk THEN Value(resp.json) ELSE Throw(resp.error)

\* callPlaneAPI from the settling of fetch on: the value it returns or the
\* Error it throws (every throw passes through its catch and is re-wrapped)
CallPlaneAPIResult(resp) ==
  LET inner == IF resp.kind = "network" THEN Throw(resp.error)
               ELSE IF ~ResponseOk(resp) THEN Throw(ApiErrorMessage(resp))
               ELSE SuccessValue(resp)
  IN IF inner.k = "throw"
     THEN Throw(<<"Error calling Plane API: ">> \o inner.text)
     ELSE inner

\* variant of HandlerEnd without the catch clause: the Error escapes
HandlerEndWithoutCatch(step) ==
  CASE step.k = "return" -> [t |-> "result", isError |-> step.isError, text |-> step.text]
    [] step.k = "value" ->
         [t |-> "result", isError |-> FALSE, text |-> Stringify(step.body, 0)]
    [] step.k = "throw" -> [t |-> "thrown", isError |-> FALSE, text |-> step.text]

\* The handler's way out: `return {content: [{type: "text", text}], isError}`
\* or, for an Error thrown inside its try block, the catch clause's result
HandlerEnd(step) ==
  CASE step.k = "return" -> [t |-> "result", isError |-> step.isError, text |-> step.text]
    [] step.k = "value" ->
         [t |-> "result", isError |-> FALSE, text |-> Stringify(step.body, 0)]
    [] step.k = "throw" ->
         [t |-> "result", isError |-> TRUE, text |-> <<"Error: ">> \o step.text]

NoResult == [t |-> "none", isError |-> FALSE, text |-> <<>>]

NoCall == [name |-> <<>>, arguments |-> Undef]

NoResponse ==
  [kind |-> "none", status |-> 0, statusText |-> <<>>, textOk |-> FALSE,
   text |-> <<>>, jsonOk |-> FALSE, json |-> Undef, error |-> <<>>]

\* -------------------------------------------------- inputs of the model
\* tool names as callers write them, with either separator
Words ==
  {<<"list", "projects">>, <<"get", "project">>, <<"create", "issue">>,
   <<"list", "issues">>, <<"get", "issue">>, <<"update", "issue">>,
   <<"delete", "issue">>}

Separators == {"-", "_"}

Names ==
  {<<w[1], s, w[2]>> : w \in Words, s \in Separators}
    \cup {<<"get", s1, "issue", s2, "comments">> : s1 \in Separators, s2 \in Separators}

P == Str(<<"P">>)

I == Str(<<"I">>)

N == Str(<<"N">>)

U1 == Str(<<"u1">>)

U2 == Str(<<"u2">>)

\* argument mappings that exercise the validation of required fields
ValidationArguments ==
  {Undef, Null, Obj(<<>>),
   Obj(<<Prop("project_id", P)>>),
   Obj(<<Prop("project_id", Num(7))>>),
   Obj(<<Prop("issue_id", I)>>),
   Obj(<<Prop("project_id", P), Prop("issue_id", I)>>),
   Obj(<<Prop("project_id", P), Prop("issue_id", Num(5))>>),
   Obj(<<Prop("project_id", P), Prop("name", N)>>),
   Obj(<<Prop("project_id", P), Prop("name", Num(3))>>),
   Obj(<<Prop("name", N)>>)}

\* raw assignees values
AssigneesValues ==
  {Undef, Null, Bool(TRUE), Bool(FALSE), Num(5), Num(0),
   Str(<<>>), U1,
   Arr(<<>>), Arr(<<U1, U2>>),
   Obj(<<>>),
   Obj(<<Prop("0", U1), Prop("1", U2)>>),
   Obj(<<Prop("project_id", P), Prop("name", N), Prop("priority", Str(<<"high">>))>>),
   Obj(<<Prop("project_id", Str(<<>>)), Prop("name", N)>>),
   Obj(<<Prop("project_id", P)>>)}

AssigneesArguments ==
  {Obj(<<Prop("project_id", P), Prop("issue_id", I), Prop("name", N),
         Prop("assignees", a)>>) : a \in AssigneesValues}

\* argument mappings with query parameters, in several enumeration orders
QueryArguments ==
  {Obj(<<Prop("project_id", P), Prop("priority", Str(<<"high">>)), Prop("limit", Num(10))>>),
   Obj(<<Prop("priority", Str(<<"high">>)), Prop("project_id", P), Prop("limit", Num(10))>>),
   Obj(<<Prop("limit", Num(10)), Prop("priority", Str(<<"high">>)), Prop("project_id", P)>>),
   Obj(<<Prop("project_id", P), Prop("state_id", Undef)>>),
   Obj(<<Prop("project_id", P), Prop("state_id", Undef), Prop("priority", Str(<<"low">>))>>),
   Obj(<<Prop("project_id", P), Prop("q", Str(<<"a", " ", "b", "&", "c">>))>>),
   Obj(<<Prop("project_id", P), Prop("q", Str(<<>>))>>),
   Obj(<<Prop("project_id", P), Prop("q", Str(<<"a", Surrogate>>)), Prop("limit", Num(10))>>),
   Obj(<<Prop("project_id", P), Prop("archived", Bool(FALSE)), Prop("cursor", Null)>>)}

Arguments == ValidationArguments \cup AssigneesArguments \cup QueryArguments

HttpResponse(status, statusText, textOk, text, jsonOk, json) ==
  [kind |-> "http", status |-> status, statusText |-> statusText, textOk |-> textOk,
   text |-> text, jsonOk |-> jsonOk, json |-> json,
   error |-> IF jsonOk THEN <<>> ELSE <<"Unexpected end of JSON input">>]

\* what `await fetch` settles with: a rejection or a Response
Responses ==
  {[kind |-> "network", status |-> 0, statusText |-> <<>>, textOk |-> FALSE,
    text |-> <<>>, jsonOk |-> FALSE, json |-> Undef, error |-> <<"fetch failed">>],
   HttpResponse(200, <<"OK">>, TRUE, <<"{\"id\":\"I\",\"assignees\":[\"u1\"]}">>, TRUE,
                Obj(<<Prop("id", I), Prop("assignees", Arr(<<U1>>))>>)),
   HttpResponse(200, <<"OK">>, TRUE, <<"[]">>, TRUE, Arr(<<>>)),
   HttpResponse(200, <<"OK">>, TRUE, <<"<html>">>, FALSE, Undef),
   HttpResponse(201, <<"Created">>, TRUE, <<"{\"id\":\"I\"}">>, TRUE,
                Obj(<<Prop("id", I)>>)),
   HttpResponse(204, <<"No Content">>, TRUE, <<>>, FALSE, Undef),
   HttpResponse(404, <<"Not Found">>, TRUE, <<"{\"detail\":\"Not found.\"}">>, TRUE,
                Obj(<<Prop("detail", Str(<<"Not found.">>))>>)),
   HttpResponse(404, <<"Not Found">>, FALSE, <<>>, FALSE, Undef),
   HttpResponse(500, <<"Internal Server Error">>, TRUE, <<"<html>">>, FALSE, Undef)}

\* ------------------------------------------------- tool input schemas
\* inputSchema.required of each tool descriptor
Required(tool) ==
  CASE tool = ListProjects -> {}
    [] tool = GetProject -> {"project_id"}
    [] tool = CreateIssue -> {"project_id", "name"}
    [] tool = ListIssues -> {"project_id"}
    [] tool = GetIssue -> {"project_id", "issue_id"}
    [] tool = UpdateIssue -> {"project_id", "issue_id"}
    [] OTHER -> {}

\* the tool descriptors (name and inputSchema.required; descriptions and
\* property schemas are left out), in the order ListTools answers with
ToolDescriptors ==
  [k \in 1..Len(ToolNames) |->
     [name |-> ToolNames[k], required |-> Required(ToolNames[k])]]

\* ------------------------------------------------------- state machine
\* The state after startup: the configuration is read, the tool descriptors
\* are built, the handlers are registered and no invocation is in progress.
Init ==
  /\ PLANE_API_URL \in {DefaultApiUrl, "https://plane.example.com/api/v1/workspaces"}
  /\ running = TRUE
  /\ unknownSeen = FALSE
  /\ pc = [i \in Slots |-> "idle"]
  /\ call = [i \in Slots |-> NoCall]
  /\ sent = [i \in Slots |-> <<>>]
  /\ response = [i \in Slots |-> NoResponse]
  /\ result = [i \in Slots |-> NoResult]
  /\ tools = ToolDescriptors
  /\ listed = <<>>

\* no invocation is in progress
Quiet == \A i \in Slots : pc[i] = "idle"

\* variant of Receive whose name and args live in module-level variables: a
\* new invocation overwrites those of the invocations in flight
ReceiveSharedParams(i, name, arguments) ==
  LET params == [name |-> name, arguments |-> arguments]
      step == HandlerStart(params)
  IN /\ pc[i] = "idle"
     /\ call' = [j \in Slots |-> IF j = i \/ pc[j] = "fetching" THEN params ELSE call[j]]
     /\ IF step.k = "fetch"
        THEN /\ sent' = [sent EXCEPT
                           ![i] = Append(@, FetchRequest(step.endpoint, step.method, step.body))]
             /\ pc' = [pc EXCEPT ![i] = "fetching"]
             /\ result' = result
        ELSE /\ sent' = sent
             /\ pc' = [pc EXCEPT ![i] = "done"]
             /\ result' = [result EXCEPT ![i] = HandlerEnd(step)]
     /\ unknownSeen' = (unknownSeen \/ NormalizeName(name) \notin Registered)
     /\ UNCHANGED <<PLANE_API_URL, running, response, tools, listed>>

\* The transport hands a CallTool request to the handler, which runs up to
\* `await fetch` inside callPlaneAPI or, without a fetch, to its end.
Receive(i, name, arguments) ==
  LET params == [name |-> name, arguments |-> arguments]
      step == HandlerStart(params)
  IN /\ pc[i] = "idle"
     /\ call' = [call EXCEPT ![i] = params]
     /\ IF step.k = "fetch"
        THEN /\ sent' = [sent EXCEPT
                           ![i] = Append(@, FetchRequest(step.endpoint, step.method, step.body))]
             /\ pc' = [pc EXCEPT ![i] = "fetching"]
             /\ result' = result
        ELSE /\ sent' = sent
             /\ pc' = [pc EXCEPT ![i] = "done"]
             /\ result' = [result EXCEPT ![i] = HandlerEnd(step)]
     /\ unknownSeen' = (unknownSeen \/ NormalizeName(name) \notin Registered)
     /\ UNCHANGED <<PLANE_API_URL, running, response, tools, listed>>

\* The host dispatches one invocation at a time.
Serve(i, name, arguments) == Quiet /\ Receive(i, name, arguments)

\* fetch settles; callPlaneAPI and the handler run to the handler's end.
Respond(i, resp) ==
  /\ pc[i] = "fetching"
  /\ response' = [response EXCEPT ![i] = resp]
  /\ result' = [result EXCEPT ![i] = HandlerEnd(CallPlaneAPIResult(resp))]
  /\ pc' = [pc EXCEPT ![i] = "done"]
  /\ UNCHANGED <<PLANE_API_URL, running, unknownSeen, call, sent, tools, listed>>

\* The transport sends the handler's result to the caller.
Deliver(i) ==
  /\ pc[i] = "done"
  /\ pc' = [pc EXCEPT ![i] = "idle"]
  /\ call' = [call EXCEPT ![i] = NoCall]
  /\ sent' = [sent EXCEPT ![i] = <<>>]
  /\ response' = [response EXCEPT ![i] = NoResponse]
  /\ result' = [result EXCEPT ![i] = NoResult]
  /\ UNCHANGED <<PLANE_API_URL, running, unknownSeen, tools, listed>>

\* The ListTools handler answers with the six tool descriptors.
ListTools ==
  /\ listed' = tools
  /\ UNCHANGED <<PLANE_API_URL, running, unknownSeen, pc, call, sent, response, result,
                 tools>>

Next ==
  \/ \E i \in Slots, name \in Names, arguments \in Arguments :
       Serve(i, name, arguments)
  \/ \E i \in Slots, resp \in Responses : Respond(i, resp)
  \/ \E i \in Slots : Deliver(i)
  \/ ListTools

Spec == Init /\ [][Next]_vars

\* inputs of the concurrent specification: a tool with a body, a tool with a
\* query string, a tool without arguments and an unknown tool
ConcurrentNames ==
  {<<"create", "_", "issue">>, <<"list", "-", "issues">>, <<"list", "-", "projects">>,
   <<"delete", "-", "issue">>}

ConcurrentArguments ==
  {Null,
   Obj(<<Prop("project_id", P), Prop("issue_id", I), Prop("name", N),
         Prop("assignees", U1)>>),
   Obj(<<Prop("priority", Str(<<"high">>)), Prop("project_id", Str(<<"Q">>)),
         Prop("limit", Num(10))>>)}

ConcurrentResponses ==
  {r \in Responses :
     r.kind = "network" \/ r.status \in {201, 204} \/ (r.status = 404 /\ r.textOk)}

\* The host dispatches invocations concurrently: a handler may start while
\* others are suspended at their fetch, and the fetches settle in any order.
NextConcurrent ==
  \/ \E i \in Slots, name \in ConcurrentNames, arguments \in ConcurrentArguments :
       Receive(i, name, arguments)
  \/ \E i \in Slots, resp \in ConcurrentResponses : Respond(i, resp)
  \/ \E i \in Slots : Deliver(i)
  \/ ListTools

SpecConcurrent == Init /\ [][NextConcurrent]_vars

TypeOK ==
  /\ running \in BOOLEAN
  /\ \A i \in Slots : pc[i] \in {"idle", "fetching", "done"}

\* ------------------------------------------------------------- claims
\* the tool an invocation addresses
ToolOf(i) == NormalizeName(call[i].name)

Active(i) == pc[i] # "idle"

Done(i) == pc[i] = "done"

\* some required argument of the tool is missing or is not a string
MissingRequired(i) ==
  \E f \in Required(ToolOf(i)) : TypeOf(Get(call[i].arguments, f)) # "string"

\* the endpoint of a request: its url without the base url
EndpointOf(req) == SubSeq(req.url, 4, Len(req.url))

\* C1: every tool invoked with a required argument (per its schema: none;
\* project_id; project_id and name; project_id; project_id and issue_id
\* twice) missing or not a string returns an error-flagged result and sends
\* no HTTP request.
C1_MissingRequiredRejected ==
  \A i \in Slots :
    (Active(i) /\ ToolOf(i) \in Registered /\ MissingRequired(i))
      => /\ sent[i] = <<>>
         /\ Done(i)
         /\ result[i].isError

\* the assignees field of the body the five rules of C2 give for a raw value:
\* [present, v]
RuleAssignees(raw) ==
  CASE raw.t = "obj" /\ HasKey(raw, "project_id") /\ HasKey(raw, "name") ->
         [present |-> FALSE, v |-> Undef]
    [] raw.t = "arr" -> [present |-> TRUE, v |-> raw]
    [] raw.t = "str" -> [present |-> TRUE, v |-> Arr(<<raw>>)]
    [] raw.t = "obj" -> [present |-> TRUE, v |-> Arr([k \in 1..Len(raw.v) |-> raw.v[k].v])]
    [] OTHER -> [present |-> FALSE, v |-> Undef]

BodyAssignees(req) ==
  [present |-> HasKey(req.body, "assignees"),
   v |-> Get(req.body, "assignees")]

SendsIssue(i) == Active(i) /\ ToolOf(i) \in {CreateIssue, UpdateIssue} /\ sent[i] # <<>>

\* C2: in create-issue and update-issue the body's assignees field follows
\* from the raw value by the first matching rule: object with project_id and
\* name keys -> absent; array -> unchanged; string -> one-element array;
\* other object -> its values; anything else -> absent.
C2_AssigneesRules ==
  \A i \in Slots :
    SendsIssue(i)
      => BodyAssignees(sent[i][1]) = RuleAssignees(Get(call[i].arguments, "assignees"))

\* C3: every body create-issue or update-issue sends has no assignees field
\* or one that is an array of strings.
C3_AssigneesArrayOfStrings ==
  \A i \in Slots :
    SendsIssue(i)
      => LET a == BodyAssignees(sent[i][1])
         IN a.present => /\ a.v.t = "arr"
                         /\ \A k \in 1..Len(a.v.v) : a.v.v[k].t = "str"

ValidRequired(i) == ToolOf(i) \in Registered /\ ~MissingRequired(i)

Arg(i, f) == Get(call[i].arguments, f).v

\* the method of the tool's row in the table of tools
TableMethod(tool) ==
  CASE tool = CreateIssue -> "POST"
    [] tool = UpdateIssue -> "PATCH"
    [] OTHER -> "GET"

\* the path of the tool's row in the table of tools
TablePath(i) ==
  CASE ToolOf(i) = ListProjects -> <<"/projects/">>
    [] ToolOf(i) = GetProject -> <<"/projects/">> \o Arg(i, "project_id") \o <<"/">>
    [] ToolOf(i) \in {CreateIssue, ListIssues} ->
         <<"/projects/">> \o Arg(i, "project_id") \o <<"/issues/">>
    [] ToolOf(i) \in {GetIssue, UpdateIssue} ->
         <<"/projects/">> \o Arg(i, "project_id") \o <<"/issues/">>
           \o Arg(i, "issue_id") \o <<"/">>

\* the endpoint of a request up to its query string
PathOf(req) ==
  LET e == EndpointOf(req)
      q == {k \in 1..Len(e) : e[k] = "?"}
  IN IF q = {} THEN e ELSE SubSeq(e, 1, (CHOOSE k \in q : \A j \in q : k <= j) - 1)

\* a 2xx response whose body decodes as JSON
Success(resp) == resp.kind = "http" /\ ResponseOk(resp) /\ resp.jsonOk

RequestOfRow(i) ==
  /\ Len(sent[i]) = 1
  /\ sent[i][1].method = TableMethod(ToolOf(i))
  /\ PathOf(sent[i][1]) = TablePath(i)

DecodedResult(i) ==
  (Done(i) /\ Success(response[i]))
    => /\ result[i] = [t |-> "result", isError |-> FALSE,
                       text |-> Stringify(response[i].json, 0)]
       /\ response[i].status = 201
            => result[i].text
                 = <<"{", "\n", "  ", "\"", "id", "\"", ": ", "\"", "I", "\"", "\n", "}">>

\* every defined argument of a list-issues call other than project_id has a
\* string form that URL-encodes
QueryEncodable(i) ==
  \A k \in 1..Len(call[i].arguments.v) :
    LET p == call[i].arguments.v[k]
    IN (p.k # "project_id" /\ p.v.t # "undef")
         => \A c \in 1..Len(StringOf(p.v)) : StringOf(p.v)[c] # Surrogate

\* C4 as stated: a known tool invoked with valid required arguments sends
\* exactly one request, with the method and path of its table row, and on
\* success returns the decoded JSON pretty-printed, not flagged as an error.
C4_AlwaysOneRequest ==
  \A i \in Slots :
    (Active(i) /\ ValidRequired(i)) => (RequestOfRow(i) /\ DecodedResult(i))

\* C4 amended: as above, except that a list-issues call with an argument that
\* cannot be URL-encoded sends no request and returns an error-flagged result.
C4_OneRequest ==
  \A i \in Slots :
    (Active(i) /\ ValidRequired(i))
      => IF ToolOf(i) = ListIssues /\ ~QueryEncodable(i)
         THEN sent[i] = <<>> /\ Done(i) /\ result[i].isError
         ELSE RequestOfRow(i) /\ DecodedResult(i)

C4_Witness ==
  \E i \in Slots :
    /\ Done(i) /\ ValidRequired(i) /\ ToolOf(i) = GetProject
    /\ Success(response[i]) /\ Len(sent[i]) = 1 /\ ~result[i].isError

\* the query string C5 describes for a sequence of arguments
RECURSIVE QueryOf(_)
QueryOf(props) ==
  IF props = <<>> THEN <<>>
  ELSE LET p == Head(props)
           rest == QueryOf(Tail(props))
       IN IF p.k = "project_id" \/ p.v.t = "undef" THEN rest
          ELSE <<p.k, "=">> \o EncodeURIComponent(StringOf(p.v)).v
                 \o (IF rest = <<>> THEN <<>> ELSE <<"&">> \o rest)

ListsIssues(i) ==
  Active(i) /\ ToolOf(i) = ListIssues /\ TypeOf(Get(call[i].arguments, "project_id")) = "string"

QueryRequest(i) ==
  LET q == QueryOf(call[i].arguments.v)
      e == EndpointOf(sent[i][1])
  IN /\ Len(sent[i]) = 1
     /\ sent[i][1].method = "GET"
     /\ e = <<"/projects/">> \o Arg(i, "project_id") \o <<"/issues/">>
              \o (IF q = <<>> THEN <<>> ELSE <<"?">> \o q)
     /\ (Get(call[i].arguments, "priority") = Str(<<"high">>)
           /\ Get(call[i].arguments, "limit") = Num(10)
           /\ call[i].arguments.v[1].k # "limit")
          => e = <<"/projects/", "P", "/issues/", "?",
                   "priority", "=", "high", "&", "limit", "=", "1", "0">>
     /\ HasKey(call[i].arguments, "q") /\ Len(Arg(i, "q")) = 5
          => e = <<"/projects/", "P", "/issues/", "?",
                   "q", "=", "a", "%20", "b", "%26", "c">>
     /\ HasKey(call[i].arguments, "state_id") /\ Len(call[i].arguments.v) = 2
          => e = <<"/projects/", "P", "/issues/">>

\* C5 as stated: list-issues with a string project_id sends a GET to
\* /projects/P/issues/ followed by "?" and the key=value pairs of the other
\* defined arguments, in enumeration order, joined by "&", values
\* URL-encoded; without such an argument there is no "?".
C5_AlwaysQueryRequest == \A i \in Slots : ListsIssues(i) => QueryRequest(i)

\* C5 amended: as above when every defined value URL-encodes; otherwise no
\* request is sent and the result is the error "URI malformed".
C5_QueryRequest ==
  \A i \in Slots :
    ListsIssues(i)
      => IF QueryEncodable(i)
         THEN QueryRequest(i)
         ELSE /\ sent[i] = <<>>
              /\ Done(i)
              /\ result[i] = [t |-> "result", isError |-> TRUE,
                              text |-> <<"Error: ", "URI malformed">>]

C5_Witness ==
  \E i \in Slots :
    /\ ListsIssues(i)
    /\ call[i].arguments.v[1].k = "priority"
    /\ Len(sent[i]) = 1
    /\ EndpointOf(sent[i][1])
         = <<"/projects/", "P", "/issues/", "?",
             "priority", "=", "high", "&", "limit", "=", "1", "0">>

\* sub occurs in text as a contiguous run
Contains(text, sub) ==
  \E k \in 0..(Len(text) - Len(sub)) : SubSeq(text, k + 1, k + Len(sub)) = sub

NonSuccess(resp) == resp.kind = "http" /\ (resp.status < 200 \/ resp.status > 299)

\* C6: a non-2xx status gives an error-flagged result whose text contains
\* the status code, the status text and the raw body text, or a placeholder
\* when the body cannot be read.
C6_NonSuccessStatus ==
  \A i \in Slots :
    (Done(i) /\ NonSuccess(response[i]))
      => /\ result[i].t = "result"
         /\ result[i].isError
         /\ Len(sent[i]) = 1
         /\ Contains(result[i].text, Digits(response[i].status))
         /\ response[i].status = 404 => Contains(result[i].text, <<"4", "0", "4">>)
         /\ Contains(result[i].text, response[i].statusText)
         /\ IF response[i].textOk
            THEN Contains(result[i].text, response[i].text)
            ELSE Contains(result[i].text, <<"Unable to parse error response">>)

C6_Witness ==
  \E i \in Slots :
    /\ Done(i) /\ response[i].kind = "http" /\ response[i].status = 404
    /\ response[i].textOk /\ response[i].text # <<>>
    /\ result[i].isError

\* the text is "Unknown tool: " followed by the name, each underscore of it
\* written as a hyphen
NamesTool(text, name) ==
  /\ Len(text) = Len(name) + 1
  /\ text[1] = "Unknown tool: "
  /\ \A k \in 1..Len(name) : text[k + 1] = (IF name[k] = "_" THEN "-" ELSE name[k])

\* C7: a tool name that matches no registered tool after normalisation gets
\* an error-flagged result naming the tool, no exception and no request; the
\* process keeps serving and a later call of a registered tool is handled
\* from the same configuration as before.
C7_UnknownTool ==
  /\ running
  /\ \A i \in Slots :
       (Active(i) /\ ToolOf(i) \notin Registered)
         => /\ Done(i)
            /\ sent[i] = <<>>
            /\ result[i].t = "result"
            /\ result[i].isError
            /\ NamesTool(result[i].text, call[i].name)
  /\ \A i \in Slots :
       (unknownSeen /\ Active(i) /\ ToolOf(i) = ListProjects)
         => /\ Len(sent[i]) = 1
            /\ sent[i][1].url = <<PLANE_API_URL, "/", PLANE_WORKSPACE_SLUG, "/projects/">>
            /\ (Done(i) /\ Success(response[i]) /\ response[i].status = 201)
                 => result[i].text
                      = <<"{", "\n", "  ", "\"", "id", "\"", ": ", "\"", "I", "\"", "\n", "}">>

C7_Witness ==
  \E i \in Slots :
    /\ unknownSeen
    /\ Done(i) /\ ToolOf(i) = ListProjects
    /\ Success(response[i]) /\ ~result[i].isError

\* the HTTP call of the invocation did not succeed
HttpFailed(resp) ==
  \/ resp.kind = "network"
  \/ NonSuccess(resp)
  \/ (resp.kind = "http" /\ resp.status # 204 /\ ~resp.jsonOk)

Hyphenated(name) == [k \in 1..Len(name) |-> IF name[k] \in Separators THEN "-" ELSE name[k]]

\* C9: a name written with underscores, hyphens or both gives the request
\* and, for the same response, the result of the name written with hyphens.
C9_SeparatorsEquivalent ==
  \A i \in Slots :
    Active(i)
      => LET step == HandlerStart([name |-> Hyphenated(call[i].name),
                                   arguments |-> call[i].arguments])
         IN /\ sent[i] = IF step.k = "fetch"
                         THEN <<FetchRequest(step.endpoint, step.method, step.body)>>
                         ELSE <<>>
            /\ Done(i)
                 => result[i] = IF step.k = "fetch"
                                THEN HandlerEnd(CallPlaneAPIResult(response[i]))
                                ELSE HandlerEnd(step)

C9_Witness ==
  \E i \in Slots :
    /\ Done(i) /\ call[i].name = <<"create", "_", "issue">>
    /\ Len(sent[i]) = 1 /\ sent[i][1].method = "POST"
    /\ ~result[i].isError

\* C10: a 204 response is surfaced as the pretty-printed {success: true},
\* not flagged as an error, without decoding the body.
C10_NoContent ==
  \A i \in Slots :
    (Done(i) /\ response[i].kind = "http" /\ response[i].status = 204)
      => result[i] = [t |-> "result", isError |-> FALSE,
                      text |-> <<"{", "\n", "  ", "\"", "success", "\"", ": ", "true",
                                 "\n", "}">>]

\* the request and the result of invocation i follow from its own name, its
\* own arguments and its own response
OwnOutcome(i) ==
  LET step == HandlerStart(call[i])
  IN /\ sent[i] = IF step.k = "fetch"
                  THEN <<FetchRequest(step.endpoint, step.method, step.body)>>
                  ELSE <<>>
     /\ pc[i] = "fetching" => (result[i] = NoResult /\ response[i] = NoResponse)
     /\ Done(i)
          => result[i] = IF step.k = "fetch"
                         THEN HandlerEnd(CallPlaneAPIResult(response[i]))
                         ELSE HandlerEnd(step)
     /\ (ToolOf(i) = CreateIssue /\ HasKey(call[i].arguments, "assignees"))
          => /\ Len(sent[i]) = 1
             /\ EndpointOf(sent[i][1]) = <<"/projects/", "P", "/issues/">>
             /\ Get(sent[i][1].body, "assignees") = Arr(<<U1>>)
     /\ (ToolOf(i) = ListIssues /\ HasKey(call[i].arguments, "limit"))
          => /\ Len(sent[i]) = 1
             /\ EndpointOf(sent[i][1])
                  = <<"/projects/", "Q", "/issues/", "?",
                      "priority", "=", "high", "&", "limit", "=", "1", "0">>
     /\ (Done(i) /\ response[i].kind = "http" /\ response[i].status = 404)
          => result[i].isError

\* the list-tools answer is the six descriptors, in the registry's order
SixDescriptors(answer) ==
  /\ Len(answer) = 6
  /\ [k \in 1..6 |-> answer[k].name]
       = <<ListProjects, GetProject, CreateIssue, ListIssues, GetIssue, UpdateIssue>>
  /\ answer[3].required = {"project_id", "name"}

\* a step leaves alone every invocation it is not a step of, the arguments
\* and the request of every invocation in progress, and the registry
OthersUntouched ==
  /\ tools' = tools
  /\ \A i \in Slots :
       /\ pc'[i] = pc[i]
            => /\ call'[i] = call[i]
               /\ sent'[i] = sent[i]
               /\ response'[i] = response[i]
               /\ result'[i] = result[i]
       /\ (Active(i) /\ pc'[i] # "idle")
            => (call'[i] = call[i] /\ sent'[i] = sent[i])

\* C11: with several invocations in flight, resumed in any order, each
\* invocation's request and result depend only on its own name, arguments
\* and response; no invocation alters another's arguments, request or
\* result; and the list-tools answer stays the same six descriptors.
C11_Independent ==
  /\ [](\A i \in Slots : Active(i) => OwnOutcome(i))
  /\ [](SixDescriptors(tools) /\ (listed # <<>> => (listed = tools /\ SixDescriptors(listed))))
  /\ [][OthersUntouched]_vars

C11_Witness ==
  \E i \in Slots, j \in Slots :
    /\ pc[i] = "fetching" /\ ToolOf(i) = CreateIssue
    /\ Done(j) /\ ToolOf(j) = ListIssues /\ ~result[j].isError
    /\ SixDescriptors(listed)

C10_Witness ==
  \E i \in Slots :
    /\ Done(i) /\ response[i].kind = "http" /\ response[i].status = 204
    /\ ToolOf(i) = UpdateIssue /\ ~response[i].jsonOk
    /\ ~result[i].isError

====
